---------------------------- MODULE Spec2Model ----------------------------
(***************************************************************************)
(* Tool-hire chatbot: the streaming response continuation protocol.        *)
(*                                                                         *)
(*   server  app/api/tool-recommendation/route.js (src/unnamed/part_001)   *)
(*   client  src/app/components/ToolHireChatbot.jsx, lines 1-1232          *)
(*                                                                         *)
(* Texts are sequences of characters, so that concatenation and            *)
(* String.includes are computed and not assumed.                           *)
(*                                                                         *)
(*   ServerSpec  the route handler serving arbitrary request bodies        *)
(*   Spec        the client component, its watchdog and its handlers; a    *)
(*               request's terminal record is computed by the route        *)
(*               handler's operators from the request and the upstream     *)
(*               output                                                    *)
(*   GatheringSpec2  streamInformationGathering of the second version of   *)
(*               the route (src/unnamed/part_002)                          *)
(*   ServerSpec0 the earlier, non-streaming route (src/unnamed/part_000)   *)
(*   StallSpec   the client against an upstream whose streams all stall    *)
(*   SpecB       the component's second version, lines 1234-2051           *)
(***************************************************************************)
EXTENDS Naturals, Sequences, FiniteSets, TLC

VARIABLES
    srv,                  \* the route handler serving one request (ServerSpec)
    messages,             \* useState: the chat message list
    isLoading,            \* useState
    phase,                \* useState: "gathering" | "recommendation"
    conversationHistory,  \* useState: the turn history the client owns
    projectInformation,   \* useState
    initialMessageSent,   \* useState
    timeoutRef,           \* useRef: the watchdog timer
    responseRef,          \* useRef: text accumulated for the watchdog
    isStreamingRef,       \* useRef
    currentRequestRef,    \* useRef
    streams,              \* every fetch issued so far, with its handler's locals
    timers,               \* pending setTimeout callbacks other than the watchdog
    effectDue,            \* the initial-message effect has to (re)run
    idleMs,               \* silence the pending watchdog has seen (0 if none pends)
    used,                 \* events of this run so far, by bounded kind
    compB                 \* the component of lines 1234-2051 (SpecB)

clientVars == <<messages, isLoading, phase, conversationHistory,
                projectInformation, initialMessageSent, timeoutRef,
                responseRef, isStreamingRef, currentRequestRef, streams,
                timers, effectDue, idleMs, used, compB>>

vars == <<srv, messages, isLoading, phase, conversationHistory,
          projectInformation, initialMessageSent, timeoutRef, responseRef,
          isStreamingRef, currentRequestRef, streams, timers, effectDue,
          idleMs, used, compB>>

---------------------------------------------------------------------------
(* Bounds of the model *)

\* fragments the upstream yields on one stream, at most
MaxFrags == 2
\* fetches the user, the initial-message effect and the watchdog issue in
\* one run, at most
MaxRequests == 3
\* fetches handleRecommendationPhase issues in one run, at most
MaxRecommendations == 2
\* Reset Project clicks in one run, at most
MaxResets == 1
\* fragments received by the client in one run, at most
MaxRunFrags == 2
\* transport faults in one run (a stream that ends abnormally, a record
\* that is dropped), at most
MaxFaults == 1
\* milliseconds one Tick of the clock advances
TickMs == 4000

---------------------------------------------------------------------------
(* Texts *)

\* "## FINAL SUMMARY ##"
SENTINEL ==
    <<"#", "#", " ", "F", "I", "N", "A", "L", " ",
      "S", "U", "M", "M", "A", "R", "Y", " ", "#", "#">>

\* the fragments the upstream can yield: the two halves of the sentinel
\* (FragA \o FragB = SENTINEL) and the whole sentinel
FragA == <<"#", "#", " ", "F", "I", "N", "A", "L", " ">>
FragB == <<"S", "U", "M", "M", "A", "R", "Y", " ", "#", "#">>
Frags == {FragA, FragB, SENTINEL}

\* user inputs
UserInputs == {<<"d", "e", "c", "k">>}

\* String.prototype.includes
includes(text, needle) ==
    \E i \in 0..Len(text) :
        /\ i + Len(needle) <= Len(text)
        /\ SubSeq(text, i + 1, i + Len(needle)) = needle

RECURSIVE Concat(_)
\* the concatenation of a sequence of texts
Concat(ts) == IF ts = <<>> THEN <<>> ELSE Head(ts) \o Concat(Tail(ts))

\* sequences over S of length at most n
SeqsUpTo(S, n) == UNION {[1..k -> S] : k \in 0..n}

---------------------------------------------------------------------------
(* The route handler, src/unnamed/part_001 *)

Turn(role, text) == [role |-> role, text |-> text]

\* a record of the newline-delimited stream, or a JSON body; an absent field
\* is has* = FALSE
NoRec ==
    [done |-> FALSE, error |-> FALSE, hasChunk |-> FALSE, chunk |-> <<>>,
     hasText |-> FALSE, text |-> <<>>, errText |-> "",
     hasHistory |-> FALSE, conversationHistory |-> <<>>,
     isComplete |-> FALSE, projectInformation |-> <<>>,
     continuation |-> FALSE, status |-> 200]

ChunkRecord(chunkText, continuation) ==
    [NoRec EXCEPT !.hasChunk = TRUE, !.chunk = chunkText,
                  !.continuation = continuation]

\* faulty variant: the error record never carries done
ErrorRecordNotDone(msg, done, status) ==
    [NoRec EXCEPT !.error = TRUE, !.errText = msg, !.status = status]

ErrorRecord(msg, done, status) ==
    [NoRec EXCEPT !.error = TRUE, !.errText = msg, !.done = done,
                  !.status = status]

\* a request body as POST destructures it (defaults applied)
Request(ph, userInput, hist, pinfo, streaming, contMode, partial) ==
    [phase |-> ph, userInput |-> userInput, conversationHistory |-> hist,
     projectInformation |-> pinfo, streaming |-> streaming,
     continuationMode |-> contMode, partialResponse |-> partial]

\* faulty variant: the mode alone decides, an empty partial text included
IsContinuationByMode(req) == req.continuationMode

\* continuationMode && partialResponse
IsContinuation(req) == req.continuationMode /\ req.partialResponse # <<>>

formatChatHistory(history) ==
    [i \in 1..Len(history) |-> Turn(history[i].role, history[i].text)]

\* the history the chat is started with (model.startChat)
ChatHistory(req) ==
    IF IsContinuation(req) THEN formatChatHistory(req.conversationHistory)
    ELSE IF req.conversationHistory = <<>> THEN <<>>
    ELSE formatChatHistory(req.conversationHistory)

\* the full text of a gathering turn, given the upstream output
GatheringFullText(req, output) ==
    IF IsContinuation(req) THEN req.partialResponse \o output ELSE output

\* the history a gathering response returns
GatheringHistory(req, output) ==
    LET h == req.conversationHistory
        full == GatheringFullText(req, output)
    IN  IF IsContinuation(req)
        THEN (IF Len(h) > 0 /\ h[Len(h)].role = "model"
                THEN SubSeq(h, 1, Len(h) - 1) ELSE h)
             \o <<Turn("model", full)>>
        ELSE h \o <<Turn("user", req.userInput), Turn("model", full)>>

\* faulty variant: the sentinel is looked for in the continuation's own output
GatheringIsCompleteOfOutput(req, output) == includes(output, SENTINEL)

\* fullResponseText.includes("## FINAL SUMMARY ##")
GatheringIsComplete(req, output) ==
    includes(GatheringFullText(req, output), SENTINEL)

\* faulty variant: projectInformation is filled in whatever isComplete is
streamInformationGatheringDoneFilled(req, output) ==
    [NoRec EXCEPT
        !.done = TRUE,
        !.hasHistory = TRUE,
        !.conversationHistory = GatheringHistory(req, output),
        !.isComplete = GatheringIsComplete(req, output),
        !.projectInformation = GatheringFullText(req, output),
        !.continuation = IsContinuation(req)]

\* the terminal record of streamInformationGathering
streamInformationGatheringDone(req, output) ==
    LET full == GatheringFullText(req, output)
        isComplete == GatheringIsComplete(req, output)
    IN  [NoRec EXCEPT
            !.done = TRUE,
            !.hasHistory = TRUE,
            !.conversationHistory = GatheringHistory(req, output),
            !.isComplete = isComplete,
            !.projectInformation = IF isComplete THEN full ELSE <<>>,
            !.continuation = IsContinuation(req)]

\* the body handleInformationGathering returns
handleInformationGathering(req, output) ==
    LET full == GatheringFullText(req, output)
        isComplete == includes(full, SENTINEL)
    IN  [NoRec EXCEPT
            !.done = TRUE,
            !.hasText = TRUE, !.text = full,
            !.hasHistory = TRUE,
            !.conversationHistory = GatheringHistory(req, output),
            !.isComplete = isComplete,
            !.projectInformation = IF isComplete THEN full ELSE <<>>,
            !.continuation = req.continuationMode]

\* faulty variant: the accumulator starts empty also for a continuation
RecommendationTextOfOutput(req, output) == output

\* let responseText = continuationMode ? partialResponse : ""; += each chunk
RecommendationText(req, output) ==
    (IF req.continuationMode THEN req.partialResponse ELSE <<>>) \o output

\* the terminal record of streamToolRecommendation
streamToolRecommendationDone(req, output) ==
    [NoRec EXCEPT !.done = TRUE, !.hasText = TRUE,
                  !.text = RecommendationText(req, output),
                  !.continuation = req.continuationMode]

\* the body handleToolRecommendation returns
handleToolRecommendation(req, output) ==
    [NoRec EXCEPT
        !.done = TRUE, !.hasText = TRUE,
        !.text = IF IsContinuation(req) THEN req.partialResponse \o output
                 ELSE output,
        !.continuation = req.continuationMode]

\* the prompt of a recommendation generation: the catalog template, or the
\* continuation directive with the partial text only
RecommendationPrompt(req) ==
    IF IsContinuation(req)
    THEN [kind |-> "continuation", partial |-> req.partialResponse,
          projectInformation |-> <<>>]
    ELSE [kind |-> "template", partial |-> <<>>,
          projectInformation |-> req.projectInformation]

CatalogError ==
    "Error: Unable to access tool information or product URLs. Please try again later."

\* the terminal record (streaming) or body of a request whose upstream
\* generation ended normally with `output`
TerminalRecord(req, output) ==
    IF req.phase = "gathering"
    THEN IF req.streaming THEN streamInformationGatheringDone(req, output)
         ELSE handleInformationGathering(req, output)
    ELSE IF req.streaming THEN streamToolRecommendationDone(req, output)
         ELSE handleToolRecommendation(req, output)

ValidPhase(req) == req.phase \in {"gathering", "recommendation"}


---------------------------------------------------------------------------
(* The client's data, src/app/components/ToolHireChatbot.jsx *)

\* const TIMEOUT_THRESHOLD = 8000
TIMEOUT_THRESHOLD == 8000

\* the state values a handler closes over: those of the render it was
\* created in
Snapshot(ph, hist, pinfo) ==
    [phase |-> ph, conversationHistory |-> hist, projectInformation |-> pinfo]

NoSnapshot == Snapshot("gathering", <<>>, <<>>)

\* timeoutRef.current: null, or a pending timer whose callback belongs to the
\* render of the handler that armed it
NoTimer == [armed |-> FALSE, elapsed |-> 0, snap |-> NoSnapshot]

\* currentRequestRef.current; sid names the stream the tracking was started
\* for
RequestInfo(ph, userInput, pinfo, sid) ==
    [phase |-> ph, userInput |-> userInput, projectInformation |-> pinfo,
     sid |-> sid]

NoRequestInfo == RequestInfo("gathering", <<>>, <<>>, 0)

Msg(role, content, streaming, tag) ==
    [role |-> role, content |-> content, streaming |-> streaming, tag |-> tag]

WelcomeMsg == Msg("system", <<>>, FALSE, "welcome")
PlaceholderMsg == Msg("assistant", <<>>, TRUE, "")
TimeoutMsg == Msg("system", <<>>, FALSE, "timeout")
TransitionMsg == Msg("system", <<>>, FALSE, "transition")
ThanksMsg == Msg("system", <<>>, FALSE, "thanks")
ErrorMsg == Msg("system", <<>>, FALSE, "error")
HelloMsg == Msg("user", <<"H", "e", "l", "l", "o">>, FALSE, "")

LastStreaming(msgs) == msgs # <<>> /\ msgs[Len(msgs)].streaming

\* if (newMessages[newMessages.length - 1].streaming) content = fullContent
SetLastContent(msgs, text) ==
    IF LastStreaming(msgs)
    THEN [msgs EXCEPT ![Len(msgs)].content = text] ELSE msgs

\* if (newMessages[newMessages.length - 1].streaming) streaming = false
ClearLastStreaming(msgs) ==
    IF LastStreaming(msgs)
    THEN [msgs EXCEPT ![Len(msgs)].streaming = FALSE] ELSE msgs

\* pop the streaming placeholder, if it is last, and append an error message
ReplaceByError(msgs) ==
    (IF LastStreaming(msgs) THEN SubSeq(msgs, 1, Len(msgs) - 1) ELSE msgs)
    \o <<ErrorMsg>>

\* one fetch and the locals of the handler reading it
NewStream(handler, req, snap, st) ==
    [handler |-> handler,     \* send | init | rec | contG | contR
     req |-> req,             \* the request body
     snap |-> snap,           \* the handler's closure
     st |-> st,               \* fetching | reading | closed
     fullContent |-> <<>>,    \* let fullContent
     output |-> <<>>,         \* the server's accumulated upstream output
     nfrags |-> 0,            \* the fragments the upstream has yielded
     terminal |-> "none"]     \* how the stream ended: done | error | cut | throw

\* the count of bounded events, the streams the watchdog has fired for, and
\* the number of streams issued before the latest Reset Project
NoneUsed == [frags |-> 0, faults |-> 0, resets |-> 0, fired |-> {}, before |-> 0]

Open(s) == s.st # "closed"

\* a stream that has ended: its handler has returned and its locals are gone
Closed(handler, how) ==
    [NewStream(handler, Request("", <<>>, <<>>, <<>>, FALSE, FALSE, <<>>),
               NoSnapshot, "closed")
     EXCEPT !.terminal = how]

---------------------------------------------------------------------------
(* The data of the component's second version, ToolHireChatbot.jsx lines   *)
(* 1234-2051: an AbortController and a 9500 ms timer per fetch, and the     *)
(* state partialResponse                                                    *)

\* useState(null)
NoPartial == [set |-> FALSE, text |-> <<>>, phase |-> "gathering"]

\* setPartialResponse({text, phase})
PartialResponseOf(text, ph) == [set |-> TRUE, text |-> text, phase |-> ph]

\* the values a handler created in a render closes over
ClosureB(c) ==
    [input |-> c.input, phase |-> c.phase,
     conversationHistory |-> c.conversationHistory,
     projectInformation |-> c.projectInformation,
     partialResponse |-> c.partialResponse,
     currentStreamingMessage |-> c.currentStreamingMessage]

\* the body of a fetch
RequestB(ph, userInput, hist, pinfo, partial) ==
    [phase |-> ph, userInput |-> userInput, conversationHistory |-> hist,
     projectInformation |-> pinfo, partialResponse |-> partial]

\* one call of handleSendMessage ("send") or handleRecommendationPhase
\* ("rec") that has reached its fetch, with its locals
CallB(handler, req, closure) ==
    [handler |-> handler, req |-> req, closure |-> closure,
     st |-> "fetching",       \* fetching | reading | closed
     fullContent |-> <<>>, output |-> <<>>, nfrags |-> 0,
     terminal |-> "none"]     \* done | error | cut | throw | abort

\* the component after its first render, before its effects have run
CompBFirstRender ==
    [messages |-> <<WelcomeMsg>>, input |-> <<>>, isLoading |-> FALSE,
     phase |-> "gathering", conversationHistory |-> <<>>,
     projectInformation |-> <<>>, currentStreamingMessage |-> <<>>,
     initialMessageSent |-> FALSE, partialResponse |-> NoPartial,
     calls |-> <<>>, timers |-> <<>>, used |-> NoneUsed]

---------------------------------------------------------------------------
(* ServerSpec: the route handler alone, serving arbitrary requests one     *)
(* after the other.  The upstream generation yields fragments one by one,  *)
(* ends, or throws; the catalog read succeeds or fails.                    *)

\* texts of at most MaxFrags fragments
Texts == {Concat(s) : s \in SeqsUpTo(Frags, MaxFrags)}

\* histories a request may carry
Histories ==
    LET u == CHOOSE x \in UserInputs : TRUE
    IN  { <<>>,
          <<Turn("user", u)>>,
          <<Turn("user", u), Turn("model", FragA)>> }

Requests ==
    { Request(ph, u, h, pinfo, st, cm, p) :
        ph \in {"gathering", "recommendation", "other"},
        u \in UserInputs \cup {<<>>},
        h \in Histories,
        pinfo \in {<<>>, SENTINEL},
        st \in BOOLEAN, cm \in BOOLEAN,
        p \in Texts }

\* what an observer of the route remembers of the request served before:
\* the handler itself has no module-level binding but constants
NoPrev == [served |-> FALSE, userInput |-> <<>>, conversationHistory |-> <<>>]

PrevOf(req) ==
    [served |-> TRUE, userInput |-> req.userInput,
     conversationHistory |-> req.conversationHistory]

SrvIdle ==
    [pc |-> "idle", req |-> Request("gathering", <<>>, <<>>, <<>>, FALSE, FALSE, <<>>),
     output |-> <<>>, nfrags |-> 0, out |-> <<>>, upstreamCalls |-> 0,
     catalogRead |-> FALSE, prev |-> NoPrev]

\* export async function POST(request): destructure the body and dispatch
POST ==
    /\ UNCHANGED clientVars
    /\ srv.pc = "idle"
    /\ \E req \in Requests :
        srv' =
          IF ~ValidPhase(req)
          THEN [srv EXCEPT
                  !.pc = "closed", !.req = req,
                  !.out = Append(@, ErrorRecord("Invalid phase specified", FALSE, 400))]
          ELSE [srv EXCEPT
                  !.pc = IF req.phase = "recommendation" THEN "catalog"
                         ELSE "generating",
                  !.req = req,
                  !.upstreamCalls = IF req.phase = "gathering" THEN 1 ELSE 0]

\* readFromFile succeeds for both documents; the generation call is made
SrvCatalogRead ==
    /\ UNCHANGED clientVars
    /\ srv.pc = "catalog"
    /\ srv' = [srv EXCEPT !.pc = "generating", !.catalogRead = TRUE,
                          !.upstreamCalls = 1]

\* faulty variant: the generation call is made before the documents are read
SrvCatalogFailCalling ==
    /\ UNCHANGED clientVars
    /\ srv.pc = "catalog"
    /\ srv' = [srv EXCEPT
                !.pc = "closed",
                !.upstreamCalls = 1,
                !.out = <<ErrorRecord(CatalogError, srv.req.streaming, 200)>>]

\* readFromFile throws: the error record, and no generation call
SrvCatalogFail ==
    /\ UNCHANGED clientVars
    /\ srv.pc = "catalog"
    /\ srv' = [srv EXCEPT
                !.pc = "closed",
                !.out = <<ErrorRecord(CatalogError, srv.req.streaming, 200)>>]

\* for await (const chunk of streamResult.stream): one more fragment
SrvChunk(f) ==
    /\ UNCHANGED clientVars
    /\ srv.pc = "generating"
    /\ srv.nfrags < MaxFrags
    /\ srv' = [srv EXCEPT
                !.output = @ \o f,
                !.nfrags = @ + 1,
                !.out = IF srv.req.streaming
                        THEN Append(@, ChunkRecord(f,
                                IF srv.req.phase = "gathering"
                                THEN IsContinuation(srv.req)
                                ELSE srv.req.continuationMode))
                        ELSE @]

\* the generation ends: the terminal record, then controller.close()
SrvFinish ==
    /\ UNCHANGED clientVars
    /\ srv.pc = "generating"
    /\ srv' = [srv EXCEPT
                !.pc = "closed",
                !.out = Append(@, TerminalRecord(srv.req, srv.output))]

\* the generation throws: catch in the stream, or POST's catch (status 500)
SrvUpstreamError ==
    /\ UNCHANGED clientVars
    /\ srv.pc = "generating"
    /\ srv' = [srv EXCEPT
                !.pc = "closed",
                !.out = IF srv.req.streaming
                        THEN Append(@, ErrorRecord("Error in streaming response", TRUE, 200))
                        ELSE <<ErrorRecord("An error occurred while processing your request", FALSE, 500)>>]

\* faulty variant: the output and the records live in module-level bindings
\* and survive the request
SrvNextKeeping ==
    /\ UNCHANGED clientVars
    /\ srv.pc = "closed"
    /\ srv' = [srv EXCEPT !.pc = "idle", !.prev = PrevOf(srv.req)]

\* the response has been sent: the locals of the call are gone, and the
\* handler keeps nothing for the next request
SrvNext ==
    /\ UNCHANGED clientVars
    /\ srv.pc = "closed"
    /\ srv' = [SrvIdle EXCEPT !.prev = PrevOf(srv.req)]

ClientOff ==
    /\ messages = <<>>
    /\ isLoading = FALSE
    /\ phase = "gathering"
    /\ conversationHistory = <<>>
    /\ projectInformation = <<>>
    /\ initialMessageSent = FALSE
    /\ timeoutRef = NoTimer
    /\ responseRef = <<>>
    /\ isStreamingRef = FALSE
    /\ currentRequestRef = NoRequestInfo
    /\ streams = <<>>
    /\ timers = <<>>
    /\ effectDue = FALSE
    /\ idleMs = 0
    /\ used = NoneUsed
    /\ compB = CompBFirstRender

ServerInit == srv = SrvIdle /\ ClientOff

ServerNext ==
    \/ POST
    \/ SrvCatalogRead
    \/ SrvCatalogFail
    \/ \E f \in Frags : SrvChunk(f)
    \/ SrvFinish
    \/ SrvUpstreamError
    \/ SrvNext

ServerSpec == ServerInit /\ [][ServerNext]_vars

\* the chunk fields of the records emitted before the last one
RECURSIVE ChunksOf(_)
ChunksOf(recs) ==
    IF recs = <<>> THEN <<>>
    ELSE (IF Head(recs).hasChunk THEN Head(recs).chunk ELSE <<>>)
         \o ChunksOf(Tail(recs))

SrvLast == srv.out[Len(srv.out)]

\* the stream ended with its done record (no error)
SrvDoneOk ==
    /\ srv.pc = "closed"
    /\ srv.out # <<>>
    /\ SrvLast.done /\ ~SrvLast.error

\* C1: the terminal record of a streamed recommendation carries the partial
\* text of a continuation request followed by every fragment sent on the
\* stream, in order; without continuation, the fragments alone.
C1_StitchServer ==
    (SrvDoneOk /\ srv.req.phase = "recommendation" /\ srv.req.streaming) =>
        /\ SrvLast.hasText
        /\ SrvLast.text =
             (IF srv.req.continuationMode THEN srv.req.partialResponse
              ELSE <<>>) \o ChunksOf(srv.out)
        /\ ChunksOf(srv.out) = srv.output

C1_Witness ==
    /\ SrvDoneOk /\ srv.req.phase = "recommendation" /\ srv.req.streaming
    /\ srv.req.continuationMode
    /\ srv.req.partialResponse = FragB
    /\ srv.nfrags = 2
    /\ SrvLast.text = FragB \o FragA \o FragB

\* C2: the terminal record of a gathering continuation has isComplete set
\* exactly when the partial text followed by the fragments of the
\* continuation contains the sentinel.
C2_SentinelAcrossBoundary ==
    (SrvDoneOk /\ srv.req.phase = "gathering" /\ srv.req.continuationMode) =>
        (SrvLast.isComplete <=>
            includes(srv.req.partialResponse \o
                       (IF srv.req.streaming THEN ChunksOf(srv.out)
                        ELSE srv.output),
                     SENTINEL))

\* the sentinel is split by the interruption: neither half contains it
C2_Witness ==
    /\ SrvDoneOk /\ srv.req.phase = "gathering" /\ srv.req.continuationMode
    /\ srv.req.streaming
    /\ srv.req.partialResponse = FragA
    /\ ChunksOf(srv.out) = FragB
    /\ ~includes(srv.req.partialResponse, SENTINEL)
    /\ ~includes(ChunksOf(srv.out), SENTINEL)
    /\ SrvLast.isComplete


---------------------------------------------------------------------------
(* Spec: the client (watchdog version) talking to the route handler.       *)
(* A record travels from the server to the handler reading the stream in   *)
(* one step; the transport may also end a stream without a terminal        *)
(* record, or fail it.  No handler cancels its reader, so a stream stays   *)
(* open until the server or the transport ends it.                         *)

\* state updates of one step are rendered, and the effects they trigger run,
\* before the next event is handled
Ready == ~effectDue

\* the fetches issued by handleRecommendationPhase
Recommendations == {s \in 1..Len(streams) : streams[s].handler = "rec"}

\* the fetches issued by the other handlers
OtherRequests == {s \in 1..Len(streams) : streams[s].handler # "rec"}

\* faulty variant: the timer is set whether or not a stream is tracked
resetTimeoutTimerUntracked(streaming, snap) ==
    [armed |-> TRUE, elapsed |-> 0, snap |-> snap]

\* clearTimeoutTimer, then setTimeout if tracking: the new timer's callback
\* belongs to the handler calling it
resetTimeoutTimer(streaming, snap) ==
    IF streaming THEN [armed |-> TRUE, elapsed |-> 0, snap |-> snap]
    ELSE NoTimer

\* startStreamTracking(requestInfo)
startStreamTracking(info, snap) ==
    /\ isStreamingRef' = TRUE
    /\ responseRef' = <<>>
    /\ currentRequestRef' = info
    /\ timeoutRef' = resetTimeoutTimer(TRUE, snap)
    /\ idleMs' = 0

\* finishStreamTracking()
finishStreamTracking ==
    /\ timeoutRef' = NoTimer
    /\ isStreamingRef' = FALSE
    /\ idleMs' = 0

\* the stream s, changed
WithStream(s, rec) == [streams EXCEPT ![s] = rec]

\* handleSendMessage, up to the fetch: the user sends u
SendMessage(u) ==
    /\ Ready
    /\ ~isLoading /\ phase # "recommendation"      \* the Send button is enabled
    /\ Cardinality(OtherRequests) < MaxRequests
    /\ LET snap == Snapshot(phase, conversationHistory, projectInformation)
           sid == Len(streams) + 1
       IN  /\ messages' = messages \o <<Msg("user", u, FALSE, ""), PlaceholderMsg>>
           /\ isLoading' = TRUE
           /\ startStreamTracking(RequestInfo(phase, u, projectInformation, sid), snap)
           /\ streams' = Append(streams,
                 NewStream("send",
                     Request(phase, u, conversationHistory, projectInformation,
                             TRUE, FALSE, <<>>),
                     snap, "reading"))
    /\ UNCHANGED <<srv, compB, phase, conversationHistory, projectInformation,
                   initialMessageSent, timers, effectDue, used>>

\* the initial-message effect: its cleanup, then its body
InitialMessageEffect ==
    /\ effectDue
    /\ initialMessageSent \/ Cardinality(OtherRequests) < MaxRequests
    /\ effectDue' = FALSE
    /\ IF initialMessageSent
       THEN /\ timeoutRef' = NoTimer                 \* the cleanup alone
            /\ idleMs' = 0
            /\ UNCHANGED <<messages, isLoading, isStreamingRef, responseRef,
                           currentRequestRef, streams>>
       ELSE LET snap == Snapshot(phase, conversationHistory, projectInformation)
                sid == Len(streams) + 1
            IN  /\ messages' = messages \o <<HelloMsg, PlaceholderMsg>>
                /\ isLoading' = TRUE
                /\ startStreamTracking(
                       RequestInfo(phase, <<>>, projectInformation, sid), snap)
                /\ streams' = Append(streams,
                      NewStream("init",
                          Request(phase, <<>>, conversationHistory,
                                  projectInformation, TRUE, FALSE, <<>>),
                          snap, "reading"))
    /\ UNCHANGED <<srv, compB, phase, conversationHistory, projectInformation,
                   initialMessageSent, timers, used>>

\* handleRecommendationPhase(projectInfo), up to the fetch: the callback of
\* the 1000 ms timer set when gathering completed
RecommendationTimer(i) ==
    /\ Ready
    /\ i \in 1..Len(timers) /\ timers[i].kind = "recommendation"
    /\ Cardinality(Recommendations) < MaxRecommendations
    /\ LET t == timers[i]
           sid == Len(streams) + 1
       IN  /\ isLoading' = TRUE
           /\ messages' = Append(messages, PlaceholderMsg)
           /\ startStreamTracking(
                  RequestInfo("recommendation", <<>>, t.projectInformation, sid),
                  t.snap)
           /\ streams' = Append(streams,
                 NewStream("rec",
                     Request("recommendation", <<>>, <<>>, t.projectInformation,
                             TRUE, FALSE, <<>>),
                     t.snap, "reading"))
           /\ timers' = SubSeq(timers, 1, i - 1) \o SubSeq(timers, i + 1, Len(timers))
    /\ UNCHANGED <<srv, compB, phase, conversationHistory, projectInformation,
                   initialMessageSent, effectDue, used>>

\* faulty variant: the message holding the partial text is replaced by the
\* notice
WatchdogFiresDiscarding ==
    /\ Ready
    /\ timeoutRef.armed /\ timeoutRef.elapsed >= TIMEOUT_THRESHOLD
    /\ Cardinality(OtherRequests) < MaxRequests
    /\ LET cur == currentRequestRef
           snap == timeoutRef.snap
           next == IF cur.phase = "gathering"
                   THEN NewStream("contG",
                            Request("gathering", cur.userInput,
                                    snap.conversationHistory, <<>>,
                                    TRUE, TRUE, responseRef),
                            snap, "fetching")
                   ELSE NewStream("contR",
                            Request("recommendation", <<>>, <<>>,
                                    cur.projectInformation,
                                    TRUE, TRUE, responseRef),
                            snap, "fetching")
       IN  /\ messages' = SubSeq(messages, 1, Len(messages) - 1)
                            \o <<TimeoutMsg, PlaceholderMsg>>
           /\ isLoading' = TRUE
           /\ streams' = Append(streams, next)
    /\ timeoutRef' = NoTimer
    /\ isStreamingRef' = FALSE
    /\ idleMs' = 0
    /\ used' = [used EXCEPT !.fired = @ \cup {currentRequestRef.sid}]
    /\ UNCHANGED <<srv, compB, phase, conversationHistory, projectInformation,
                   initialMessageSent, responseRef, currentRequestRef, timers,
                   effectDue>>

\* faulty variant: the callback leaves isStreamingRef.current set
WatchdogFiresStillTracking ==
    /\ Ready
    /\ timeoutRef.armed /\ timeoutRef.elapsed >= TIMEOUT_THRESHOLD
    /\ Cardinality(OtherRequests) < MaxRequests
    /\ LET cur == currentRequestRef
           snap == timeoutRef.snap
           next == IF cur.phase = "gathering"
                   THEN NewStream("contG",
                            Request("gathering", cur.userInput,
                                    snap.conversationHistory, <<>>,
                                    TRUE, TRUE, responseRef),
                            snap, "fetching")
                   ELSE NewStream("contR",
                            Request("recommendation", <<>>, <<>>,
                                    cur.projectInformation,
                                    TRUE, TRUE, responseRef),
                            snap, "fetching")
       IN  /\ messages' = messages \o <<TimeoutMsg, PlaceholderMsg>>
           /\ isLoading' = TRUE
           /\ streams' = Append(streams, next)
    /\ timeoutRef' = NoTimer
    /\ isStreamingRef' = isStreamingRef
    /\ idleMs' = 0
    /\ used' = [used EXCEPT !.fired = @ \cup {currentRequestRef.sid}]
    /\ UNCHANGED <<srv, compB, phase, conversationHistory, projectInformation,
                   initialMessageSent, responseRef, currentRequestRef, timers,
                   effectDue>>

\* the watchdog's callback: handleTimeout(responseRef.current), which runs
\* handleContinuationForGathering / ...ForRecommendation up to the fetch,
\* then isStreamingRef.current = false
WatchdogFires ==
    /\ Ready
    /\ timeoutRef.armed /\ timeoutRef.elapsed >= TIMEOUT_THRESHOLD
    /\ Cardinality(OtherRequests) < MaxRequests
    /\ LET cur == currentRequestRef
           snap == timeoutRef.snap
           next == IF cur.phase = "gathering"
                   THEN NewStream("contG",
                            Request("gathering", cur.userInput,
                                    snap.conversationHistory, <<>>,
                                    TRUE, TRUE, responseRef),
                            snap, "fetching")
                   ELSE NewStream("contR",
                            Request("recommendation", <<>>, <<>>,
                                    cur.projectInformation,
                                    TRUE, TRUE, responseRef),
                            snap, "fetching")
       IN  /\ messages' = messages \o <<TimeoutMsg, PlaceholderMsg>>
           /\ isLoading' = TRUE
           /\ streams' = Append(streams, next)
    /\ timeoutRef' = NoTimer
    /\ isStreamingRef' = FALSE
    /\ idleMs' = 0
    /\ used' = [used EXCEPT !.fired = @ \cup {currentRequestRef.sid}]
    /\ UNCHANGED <<srv, compB, phase, conversationHistory, projectInformation,
                   initialMessageSent, responseRef, currentRequestRef, timers,
                   effectDue>>

\* faulty variant: the continuation's stream is read without being
\* tracked, so that the watchdog never fires for it
ResponseArrivesUntracked(s) ==
    /\ Ready
    /\ s \in 1..Len(streams) /\ streams[s].st = "fetching"
    /\ streams' = WithStream(s, [streams[s] EXCEPT !.st = "reading"])
    /\ UNCHANGED <<srv, compB, messages, isLoading, phase, conversationHistory,
                   projectInformation, initialMessageSent, timers, effectDue,
                   used, timeoutRef, responseRef, isStreamingRef,
                   currentRequestRef, idleMs>>

\* a continuation's fetch resolves with response.ok: startStreamTracking
ResponseArrives(s) ==
    /\ Ready
    /\ s \in 1..Len(streams) /\ streams[s].st = "fetching"
    /\ LET h == streams[s]
       IN  /\ startStreamTracking(
                  IF h.handler = "contG"
                  THEN RequestInfo("gathering", h.req.userInput,
                                   h.snap.projectInformation, s)
                  ELSE RequestInfo("recommendation", <<>>,
                                   h.req.projectInformation, s),
                  h.snap)
           /\ streams' = WithStream(s, [h EXCEPT !.st = "reading"])
    /\ UNCHANGED <<srv, compB, messages, isLoading, phase, conversationHistory,
                   projectInformation, initialMessageSent, timers, effectDue,
                   used>>

\* a fragment record {chunk, done: false} is read and processed
Fragment(s, f) ==
    /\ Ready
    /\ s \in 1..Len(streams) /\ streams[s].st = "reading"
    /\ streams[s].nfrags < MaxFrags /\ used.frags < MaxRunFrags
    /\ used' = [used EXCEPT !.frags = @ + 1]
    /\ LET h == streams[s]
           full == h.fullContent \o f
       IN  /\ streams' = WithStream(s,
                 [h EXCEPT !.fullContent = full, !.output = @ \o f,
                           !.nfrags = @ + 1])
           /\ messages' = SetLastContent(messages, full)
           \* updateResponseContent(data.chunk)
           /\ responseRef' = responseRef \o f
           /\ timeoutRef' = resetTimeoutTimer(isStreamingRef, h.snap)
    /\ idleMs' = 0
    /\ UNCHANGED <<srv, compB, isLoading, phase, conversationHistory,
                   projectInformation, initialMessageSent, isStreamingRef,
                   currentRequestRef, timers, effectDue>>

\* faulty variant: the parse error leaves the read loop
FragmentUnparsedEnding(s, f) ==
    /\ Ready
    /\ s \in 1..Len(streams) /\ streams[s].st = "reading"
    /\ streams[s].nfrags < MaxFrags /\ used.frags < MaxRunFrags
    /\ used.faults < MaxFaults
    /\ used' = [used EXCEPT !.frags = @ + 1, !.faults = @ + 1]
    /\ streams' = WithStream(s,
          [streams[s] EXCEPT !.output = @ \o f, !.nfrags = @ + 1,
                             !.st = "closed", !.terminal = "throw"])
    /\ UNCHANGED <<srv, compB, messages, isLoading, phase, conversationHistory,
                   projectInformation, initialMessageSent, timeoutRef,
                   responseRef, isStreamingRef, currentRequestRef, timers,
                   effectDue, idleMs>>

\* a fragment record reaches the reader split over two reads: JSON.parse
\* throws on either part, the catch logs it and the record is dropped
FragmentUnparsed(s, f) ==
    /\ Ready
    /\ s \in 1..Len(streams) /\ streams[s].st = "reading"
    /\ streams[s].nfrags < MaxFrags /\ used.frags < MaxRunFrags
    /\ used.faults < MaxFaults
    /\ used' = [used EXCEPT !.frags = @ + 1, !.faults = @ + 1]
    /\ streams' = WithStream(s,
          [streams[s] EXCEPT !.output = @ \o f, !.nfrags = @ + 1])
    /\ UNCHANGED <<srv, compB, messages, isLoading, phase, conversationHistory,
                   projectInformation, initialMessageSent, timeoutRef,
                   responseRef, isStreamingRef, currentRequestRef, timers,
                   effectDue, idleMs>>

\* a 1000 ms timer whose callback is handleRecommendationPhase(pinfo)
RecommendationTimerOf(pinfo, snap) ==
    [kind |-> "recommendation", projectInformation |-> pinfo, snap |-> snap]

\* the 100 ms timer of handleResetProject
ResetTimerOf ==
    [kind |-> "resetInit", projectInformation |-> <<>>, snap |-> NoSnapshot]

\* completeData.isComplete && phase === "gathering", phase being the
\* handler's closure value
CompletesGathering(h, rec) == rec.isComplete /\ h.snap.phase = "gathering"

\* faulty variant: the phase follows the record's isComplete in both directions
PhaseAfterDoneOfRecord(h, rec) ==
    IF rec.isComplete THEN "recommendation" ELSE "gathering"

\* the phase after a gathering handler has processed its terminal record
PhaseAfterDone(h, rec) ==
    IF CompletesGathering(h, rec) THEN "recommendation" ELSE phase

\* the terminal record {done: true} is read and processed, the stream ends
\* and the handler runs to its end (the code after the read loop, finally)
Done(s) ==
    /\ Ready
    /\ s \in 1..Len(streams) /\ streams[s].st = "reading"
    /\ LET h == streams[s]
           rec == TerminalRecord(h.req, h.output)
           gathers == h.handler \in {"send", "contG"}
           hands == gathers /\ CompletesGathering(h, rec)
       IN  /\ streams' = WithStream(s, Closed(h.handler, "done"))
           /\ finishStreamTracking
           /\ messages' = 
                ClearLastStreaming(messages)
                \o (IF hands THEN <<TransitionMsg>> ELSE <<>>)
                \o (IF h.handler = "rec"
                       \/ (h.handler = "contR" /\ h.req.partialResponse = <<>>)
                    THEN <<ThanksMsg>> ELSE <<>>)
           /\ conversationHistory' =
                IF h.handler \in {"send", "contG", "init"} /\ rec.hasHistory
                THEN rec.conversationHistory ELSE conversationHistory
           /\ projectInformation' =
                IF hands THEN rec.projectInformation ELSE projectInformation
           /\ phase' = IF gathers THEN PhaseAfterDone(h, rec) ELSE phase
           /\ timers' =
                IF hands
                THEN Append(timers, RecommendationTimerOf(rec.projectInformation, h.snap))
                ELSE timers
           /\ initialMessageSent' = (initialMessageSent \/ h.handler = "init")
           /\ effectDue' =
                \/ h.handler \in {"send", "contG", "init"} /\ rec.hasHistory
                \/ h.handler = "init" /\ ~initialMessageSent
    /\ isLoading' = FALSE
    /\ UNCHANGED <<srv, compB, responseRef, currentRequestRef, used>>

\* the stream ends without a processed done record: the handler skips the
\* code after the loop and runs finally (the initial-message handler's
\* .finally also finishes the tracking)
EndWithout(s, how, msgs) ==
    LET h == streams[s]
    IN  /\ used.faults < MaxFaults
        /\ used' = [used EXCEPT !.faults = @ + 1]
        /\ streams' = WithStream(s, Closed(h.handler, how))
        /\ messages' = msgs
        /\ isLoading' = FALSE
        /\ IF h.handler = "init"
           THEN /\ finishStreamTracking
                /\ initialMessageSent' = TRUE
                /\ effectDue' = ~initialMessageSent
           ELSE UNCHANGED <<timeoutRef, isStreamingRef, initialMessageSent,
                            effectDue, idleMs>>
        /\ UNCHANGED <<srv, compB, phase, conversationHistory, projectInformation,
                       responseRef, currentRequestRef, timers>>

\* the server's catch: the record {error: true, text, done: true} is read
\* (data.error: the placeholder is replaced by the error), the stream ends
ErrorRecordArrives(s) ==
    /\ Ready
    /\ s \in 1..Len(streams) /\ streams[s].st = "reading"
    /\ EndWithout(s, "error", ReplaceByError(messages))

\* the transport closes the stream before any terminal record
StreamCut(s) ==
    /\ Ready
    /\ s \in 1..Len(streams) /\ streams[s].st = "reading"
    /\ EndWithout(s, "cut", messages)

\* fetch or reader.read() rejects, or the status is not OK: the catch block
StreamThrows(s) ==
    /\ Ready
    /\ s \in 1..Len(streams) /\ Open(streams[s])
    /\ EndWithout(s, "throw", ReplaceByError(messages))

\* faulty variant: the partial-text buffer is kept
ResetProjectKeepingBuffer ==
    /\ Ready
    /\ used.resets < MaxResets
    /\ used' = [used EXCEPT !.resets = @ + 1, !.before = Len(streams)]
    /\ messages' = <<WelcomeMsg>>
    /\ isLoading' = FALSE
    /\ phase' = "gathering"
    /\ conversationHistory' = <<>>
    /\ projectInformation' = <<>>
    /\ initialMessageSent' = FALSE
    /\ timeoutRef' = NoTimer
    /\ responseRef' = responseRef
    /\ isStreamingRef' = FALSE
    /\ currentRequestRef' = NoRequestInfo
    /\ timers' = Append(timers, ResetTimerOf)
    /\ effectDue' = TRUE
    /\ idleMs' = 0
    /\ UNCHANGED <<srv, compB, streams>>

\* faulty variant: the project information is kept
ResetProjectKeepingInformation ==
    /\ Ready
    /\ used.resets < MaxResets
    /\ used' = [used EXCEPT !.resets = @ + 1, !.before = Len(streams)]
    /\ messages' = <<WelcomeMsg>>
    /\ isLoading' = FALSE
    /\ phase' = "gathering"
    /\ conversationHistory' = <<>>
    /\ projectInformation' = projectInformation
    /\ initialMessageSent' = FALSE
    /\ timeoutRef' = NoTimer
    /\ responseRef' = <<>>
    /\ isStreamingRef' = FALSE
    /\ currentRequestRef' = NoRequestInfo
    /\ timers' = Append(timers, ResetTimerOf)
    /\ effectDue' = TRUE
    /\ idleMs' = 0
    /\ UNCHANGED <<srv, compB, streams>>

\* handleResetProject
ResetProject ==
    /\ Ready
    /\ used.resets < MaxResets
    /\ used' = [used EXCEPT !.resets = @ + 1, !.before = Len(streams)]
    /\ messages' = <<WelcomeMsg>>
    /\ isLoading' = FALSE
    /\ phase' = "gathering"
    /\ conversationHistory' = <<>>
    /\ projectInformation' = <<>>
    /\ initialMessageSent' = FALSE
    /\ timeoutRef' = NoTimer
    /\ responseRef' = <<>>
    /\ isStreamingRef' = FALSE
    /\ currentRequestRef' = NoRequestInfo
    /\ timers' = Append(timers, ResetTimerOf)
    /\ effectDue' = TRUE
    /\ idleMs' = 0
    /\ UNCHANGED <<srv, compB, streams>>

\* the callback of handleResetProject's timer: setInitialMessageSent(false)
ResetTimer(i) ==
    /\ Ready
    /\ i \in 1..Len(timers) /\ timers[i].kind = "resetInit"
    /\ timers' = SubSeq(timers, 1, i - 1) \o SubSeq(timers, i + 1, Len(timers))
    /\ initialMessageSent' = FALSE
    /\ effectDue' = initialMessageSent
    /\ UNCHANGED <<srv, compB, messages, isLoading, phase, conversationHistory,
                   projectInformation, timeoutRef, responseRef, isStreamingRef,
                   currentRequestRef, streams, idleMs, used>>

\* TickMs pass while the watchdog is pending; the shorter timers (100 ms,
\* 1000 ms) have fired by then
Tick ==
    /\ Ready
    /\ timers = <<>>
    /\ timeoutRef.armed /\ timeoutRef.elapsed < TIMEOUT_THRESHOLD
    /\ timeoutRef' = [timeoutRef EXCEPT !.elapsed = @ + TickMs]
    /\ idleMs' = idleMs + TickMs
    /\ UNCHANGED <<srv, compB, messages, isLoading, phase, conversationHistory,
                   projectInformation, initialMessageSent, responseRef,
                   isStreamingRef, currentRequestRef, streams, timers,
                   effectDue, used>>

\* the component after its first render, before its effects have run
Init ==
    /\ srv = SrvIdle
    /\ messages = <<WelcomeMsg>>
    /\ isLoading = FALSE
    /\ phase = "gathering"
    /\ conversationHistory = <<>>
    /\ projectInformation = <<>>
    /\ initialMessageSent = FALSE
    /\ timeoutRef = NoTimer
    /\ responseRef = <<>>
    /\ isStreamingRef = FALSE
    /\ currentRequestRef = NoRequestInfo
    /\ streams = <<>>
    /\ timers = <<>>
    /\ effectDue = TRUE
    /\ idleMs = 0
    /\ used = NoneUsed
    /\ compB = CompBFirstRender

Next ==
    \/ InitialMessageEffect
    \/ \E u \in UserInputs : SendMessage(u)
    \/ \E i \in 1..Len(timers) : RecommendationTimer(i)
    \/ \E i \in 1..Len(timers) : ResetTimer(i)
    \/ WatchdogFires
    \/ Tick
    \/ \E s \in 1..Len(streams) : ResponseArrives(s)
    \/ \E s \in 1..Len(streams), f \in Frags : Fragment(s, f)
    \/ \E s \in 1..Len(streams), f \in Frags : FragmentUnparsed(s, f)
    \/ \E s \in 1..Len(streams) : Done(s)
    \/ \E s \in 1..Len(streams) : ErrorRecordArrives(s)
    \/ \E s \in 1..Len(streams) : StreamCut(s)
    \/ \E s \in 1..Len(streams) : StreamThrows(s)
    \/ ResetProject

Spec == Init /\ [][Next]_vars

---------------------------------------------------------------------------
(* Properties of the client *)

OpenStreams == {s \in 1..Len(streams) : Open(streams[s])}

\* the stream the watchdog is tracking
Tracked == currentRequestRef.sid

\* this step is the watchdog's callback: a continuation request is issued
Fired ==
    /\ Len(streams') = Len(streams) + 1
    /\ streams'[Len(streams')].handler \in {"contG", "contR"}

\* the request issued by this step
Issued == streams'[Len(streams')].req

\* this step processes the done record of stream s
DoneStep(s) ==
    /\ streams[s].st = "reading"
    /\ streams'[s] = Closed(streams[s].handler, "done")

\* C3: at most one request/response stream of the conversation is open.
C3_OneInFlight == Cardinality(OpenStreams) <= 1

\* C4: when the watchdog fires for a continuation stream whose buffer holds
\* exactly that stream's fragments, the next continuation's partial text is
\* the earlier partial followed by those fragments.
C4_StitchedPartial ==
    [][(/\ Fired
        /\ Tracked \in OpenStreams
        /\ streams[Tracked].req.continuationMode
        /\ responseRef = streams[Tracked].fullContent)
       => Issued.partialResponse =
              streams[Tracked].req.partialResponse \o streams[Tracked].fullContent]_vars

\* C5: as long as the project is not reset, the newest stream, when it is a
\* continuation being read, is the tracked one and its watchdog is pending.
C5_ContinuationArmed ==
    \A s \in 1..Len(streams) :
        (/\ s = Len(streams)
         /\ used.resets = 0
         /\ streams[s].handler \in {"contG", "contR"}
         /\ streams[s].st = "reading")
        => (timeoutRef.armed /\ isStreamingRef /\ Tracked = s)

\* C6: when the watchdog fires for an open stream, that stream is closed by
\* the time the continuation request has been issued.
C6_CancelBeforeContinue ==
    [][(Fired /\ Tracked \in OpenStreams) => ~Open(streams'[Tracked])]_vars

\* C7: when the watchdog fires for an open stream, the continuation's partial
\* text is the concatenation of the fragments received on that stream, and
\* its phase is the phase of that stream's request.
C7_PartialIsReceived ==
    [][(Fired /\ Tracked \in OpenStreams)
       => /\ Issued.partialResponse = streams[Tracked].fullContent
          /\ Issued.phase = streams[Tracked].req.phase]_vars

\* this step starts the tracking of a stream
TrackingStarts == isStreamingRef' /\ currentRequestRef' # currentRequestRef

\* this step processes a fragment record: a handler's fullContent grows
FragmentStep ==
    /\ Len(streams') = Len(streams)
    /\ \E s \in 1..Len(streams) :
          Len(streams'[s].fullContent) > Len(streams[s].fullContent)

\* C8: the watchdog is pending from zero after tracking starts and after
\* every fragment received while tracking; it fires only while tracking,
\* after a full threshold without a fragment, and never for a stream whose
\* done record has been processed.
C8_WatchdogDiscipline ==
    [][/\ TrackingStarts => (timeoutRef'.armed /\ timeoutRef'.elapsed = 0)
       /\ (FragmentStep /\ isStreamingRef)
            => (timeoutRef'.armed /\ timeoutRef'.elapsed = 0)
       /\ Fired => /\ isStreamingRef
                   /\ idleMs >= TIMEOUT_THRESHOLD
                   /\ Tracked \in 1..Len(streams)
                   /\ streams[Tracked].terminal # "done"]_vars

\* the watchdog has fired for a continuation stream that had received a
\* fragment: a second continuation is in flight
C8_Witness ==
    /\ Len(streams) = 3
    /\ streams[2].handler = "contG" /\ streams[2].fullContent # <<>>
    /\ streams[3].handler = "contG" /\ streams[3].st = "fetching"
    /\ ~timeoutRef.armed /\ ~isStreamingRef

\* C9: the phase starts as gathering; it becomes recommendation only in a
\* step that processes a gathering terminal record with isComplete; once
\* recommendation, only Reset Project changes it; the done record of a
\* recommendation stream changes no phase and sets up no request.
C9_PhaseMonotone ==
    /\ phase = "gathering"
    /\ [][/\ (phase = "gathering" /\ phase' = "recommendation")
               => \E s \in 1..Len(streams) :
                     /\ DoneStep(s)
                     /\ streams[s].req.phase = "gathering"
                     /\ TerminalRecord(streams[s].req, streams[s].output).isComplete
          /\ (phase = "recommendation" /\ phase' # "recommendation")
               => used'.resets = used.resets + 1
          /\ \A s \in 1..Len(streams) :
                (DoneStep(s) /\ streams[s].req.phase = "recommendation")
                => /\ phase' = phase
                   /\ timers' = timers
                   /\ Len(streams') = Len(streams)]_vars

\* a recommendation stream whose output was the sentinel has ended with its
\* done record, and the phase is still recommendation
C9_Witness ==
    /\ phase = "recommendation"
    /\ Len(streams) = 3
    /\ streams[3] = Closed("rec", "done")
    /\ timers = <<>>
    /\ Len(messages) >= 2
    /\ messages[Len(messages)] = ThanksMsg
    /\ messages[Len(messages) - 1].content = SENTINEL

---------------------------------------------------------------------------
(* Properties of the route handler's streams and responses *)

\* the request being served is answered with a stream
SrvStreams == ValidPhase(srv.req) /\ srv.req.streaming

\* C12: the records of a stream are fragment records {chunk, done: false}
\* followed, once the stream is closed, by exactly one record with done:
\* true, which is the last; an open stream holds no done record.
C12_StreamShape ==
    (srv.pc # "idle" /\ SrvStreams) =>
        /\ \A i \in 1..Len(srv.out) :
              IF srv.pc = "closed" /\ i = Len(srv.out)
              THEN srv.out[i].done
              ELSE ~srv.out[i].done /\ srv.out[i].hasChunk
                   /\ ~srv.out[i].error
        /\ srv.pc = "closed" => srv.out # <<>>

\* a failing stream: two fragment records, then the error record
C12_Witness ==
    /\ srv.pc = "closed" /\ SrvStreams
    /\ Len(srv.out) = 3
    /\ srv.out[1].hasChunk /\ srv.out[2].hasChunk
    /\ srv.out[3].error /\ srv.out[3].done

---------------------------------------------------------------------------
(* Properties of the client, continued *)

\* the content of the assistant message shown last
RECURSIVE LastAssistant(_)
LastAssistant(msgs) ==
    IF msgs = <<>> THEN <<>>
    ELSE IF msgs[Len(msgs)].role = "assistant" THEN msgs[Len(msgs)].content
    ELSE LastAssistant(SubSeq(msgs, 1, Len(msgs) - 1))

\* C13: when the done record of a recommendation stream carries a text, and
\* that stream is the newest request and the only open one of a project
\* that was not reset, the assistant message shown for it holds that text
\* once the record has been processed.
C13_TerminalTextShown ==
    [][\A s \in 1..Len(streams) :
          (/\ DoneStep(s)
           /\ streams[s].handler = "rec"
           /\ s = Len(streams) /\ OpenStreams = {s}
           /\ used.resets = 0
           /\ TerminalRecord(streams[s].req, streams[s].output).text # <<>>)
          => LastAssistant(messages') =
                TerminalRecord(streams[s].req, streams[s].output).text]_vars

\* the sequence p is a prefix of the sequence q
IsPrefix(p, q) == Len(p) <= Len(q) /\ SubSeq(q, 1, Len(p)) = p

\* C15: the history a gathering response returns, continuation or not, has
\* the request's history as a prefix.
C15_HistoryAppendOnly ==
    (SrvDoneOk /\ srv.req.phase = "gathering") =>
        IsPrefix(srv.req.conversationHistory, SrvLast.conversationHistory)

\* C16: in a gathering response, projectInformation is non-empty exactly
\* when isComplete is set, and then it is the full text of the turn: the
\* partial text of a continuation followed by the upstream output.
C16_ProjectInformation ==
    (SrvDoneOk /\ srv.req.phase = "gathering") =>
        /\ (SrvLast.projectInformation # <<>>) <=> SrvLast.isComplete
        /\ SrvLast.isComplete =>
              SrvLast.projectInformation =
                 (IF srv.req.continuationMode /\ srv.req.partialResponse # <<>>
                  THEN srv.req.partialResponse ELSE <<>>) \o srv.output

\* a streamed turn whose output holds more than the sentinel
C16_Witness ==
    /\ SrvDoneOk /\ srv.req.phase = "gathering"
    /\ srv.req.streaming /\ ~srv.req.continuationMode
    /\ srv.output = FragB \o SENTINEL
    /\ SrvLast.isComplete
    /\ SrvLast.projectInformation = FragB \o SENTINEL

\* C19: between two requests the handler holds nothing of the requests it
\* has served; the body or terminal record of a response is the one
\* computed from the request and the upstream output for it; and a
\* gathering response's history is made of the request's history and the
\* turn of the request itself: for a request that is no continuation, the
\* request's history followed by its user turn and its model turn.
C19_Stateless ==
    /\ srv.pc = "idle" => srv = [SrvIdle EXCEPT !.prev = srv.prev]
    /\ SrvDoneOk => SrvLast = TerminalRecord(srv.req, srv.output)
    /\ (SrvDoneOk /\ srv.req.phase = "gathering") =>
          LET H == srv.req.conversationHistory
              own == Turn("model", GatheringFullText(srv.req, srv.output))
              user == Turn("user", srv.req.userInput)
          IN  /\ \E k \in 0..Len(H) :
                    SrvLast.conversationHistory \in
                        { SubSeq(H, 1, k) \o <<own>>,
                          SubSeq(H, 1, k) \o <<user, own>> }
              /\ ~IsContinuation(srv.req) =>
                    SrvLast.conversationHistory = H \o <<user, own>>

\* the second of two requests with the same history and another input has
\* been answered
C19_Witness ==
    /\ SrvDoneOk /\ srv.req.phase = "gathering" /\ ~srv.req.continuationMode
    /\ srv.prev.served
    /\ srv.prev.conversationHistory = srv.req.conversationHistory
    /\ srv.prev.userInput # srv.req.userInput
    /\ srv.req.conversationHistory # <<>>
    /\ srv.output = FragA
    /\ SrvLast.conversationHistory =
          srv.req.conversationHistory
             \o <<Turn("user", srv.req.userInput), Turn("model", FragA)>>

---------------------------------------------------------------------------
(* GatheringSpec2: streamInformationGathering of the second version of the *)
(* route, src/unnamed/part_002, called with any input and history.  srv    *)
(* holds the locals of one call: conversationHistory is the function's     *)
(* parameter, which it reassigns and pushes to; chatHistory is what        *)
(* startChat was given; generation is what the streamed generation call    *)
(* was given.                                                              *)

\* the text of IMPROVED_PROMPT, the system instructions
IMPROVED_PROMPT == <<"p", "r", "o", "m", "p", "t">>

\* the reply recorded for the system prompt
SystemInitText ==
    <<"S", "y", "s", "t", "e", "m", " ", "i", "n", "i", "t", "i", "a", "l",
      "i", "z", "a", "t", "i", "o", "n", " ", "c", "o", "m", "p", "l", "e",
      "t", "e">>

Srv2Idle ==
    [pc |-> "idle", userInput |-> <<>>, given |-> <<>>,
     conversationHistory |-> <<>>, chatHistory |-> <<>>, promptSent |-> FALSE,
     generation |-> [input |-> <<>>, history |-> <<>>],
     output |-> <<>>, nfrags |-> 0, out |-> <<>>]

\* streamInformationGathering(userInput, conversationHistory), up to the
\* generation call: model.startChat, the system prompt for a new
\* conversation, then model.generateContentStream(userInput), which is a
\* call on the model and not on the chat
streamInformationGathering2 ==
    /\ UNCHANGED clientVars
    /\ srv.pc = "idle"
    /\ \E u \in UserInputs \cup {<<>>}, h \in Histories :
         srv' = [Srv2Idle EXCEPT
                    !.pc = "generating",
                    !.userInput = u,
                    !.given = h,
                    !.promptSent = (h = <<>>),
                    !.conversationHistory =
                        IF h = <<>>
                        THEN <<Turn("user", IMPROVED_PROMPT),
                               Turn("model", SystemInitText)>>
                        ELSE h,
                    !.chatHistory =
                        IF h = <<>> THEN <<>> ELSE formatChatHistory(h),
                    !.generation = [input |-> u, history |-> <<>>]]

\* for await (const chunk of streamResult.stream): one more fragment
Srv2Chunk(f) ==
    /\ UNCHANGED clientVars
    /\ srv.pc = "generating"
    /\ srv.nfrags < MaxFrags
    /\ srv' = [srv EXCEPT !.output = @ \o f, !.nfrags = @ + 1,
                          !.out = Append(@, ChunkRecord(f, FALSE))]

\* the generation ends: the two pushes, the terminal record, close
Srv2Finish ==
    /\ UNCHANGED clientVars
    /\ srv.pc = "generating"
    /\ LET isComplete == includes(srv.output, SENTINEL)
           history == srv.conversationHistory
                        \o <<Turn("user", srv.userInput),
                             Turn("model", srv.output)>>
       IN  srv' = [srv EXCEPT
                     !.pc = "closed",
                     !.conversationHistory = history,
                     !.out = Append(@,
                        [NoRec EXCEPT
                           !.done = TRUE,
                           !.hasHistory = TRUE,
                           !.conversationHistory = history,
                           !.isComplete = isComplete,
                           !.projectInformation =
                               IF isComplete THEN srv.output ELSE <<>>])]

\* the generation throws: the catch's error record, close
Srv2UpstreamError ==
    /\ UNCHANGED clientVars
    /\ srv.pc = "generating"
    /\ srv' = [srv EXCEPT
                 !.pc = "closed",
                 !.out = Append(@, ErrorRecord("Error in streaming response", TRUE, 200))]

\* the response has been sent
Srv2Next ==
    /\ UNCHANGED clientVars
    /\ srv.pc = "closed"
    /\ srv' = Srv2Idle

GatheringInit2 == srv = Srv2Idle /\ ClientOff

GatheringNext2 ==
    \/ streamInformationGathering2
    \/ \E f \in Frags : Srv2Chunk(f)
    \/ Srv2Finish
    \/ Srv2UpstreamError
    \/ Srv2Next

GatheringSpec2 == GatheringInit2 /\ [][GatheringNext2]_vars

\* C14: when a gathering stream called with history H and input u ends with
\* its done record after the upstream output t, the record's history is
\* H followed by the user turn u and the model turn t, and the generation
\* call was given H as chat history.
C14_NormalTurn ==
    (srv.pc = "closed" /\ SrvLast.done /\ ~SrvLast.error) =>
        /\ SrvLast.conversationHistory =
              srv.given \o <<Turn("user", srv.userInput),
                             Turn("model", srv.output)>>
        /\ srv.generation.history = srv.given

---------------------------------------------------------------------------
(* Properties of the client's error handling *)

\* stream s has ended with an error record, a status that is not OK or a
\* rejected fetch or read
Failed(s) == streams[s].terminal \in {"error", "throw"}

\* C17: the watchdog issues no continuation request for a request that has
\* ended with an error; the tracked request is the last one issued by the
\* user, the initial-message effect or the hand-off.
C17_NoAutomaticRetry ==
    [][Fired => ~(Tracked \in 1..Len(streams) /\ Failed(Tracked))]_vars

\* this step ends stream s with an error record, a status that is not OK or
\* a rejected fetch or read
ErrorStep(s) ==
    /\ Open(streams[s])
    /\ \E how \in {"error", "throw"} :
          streams'[s] = Closed(streams[s].handler, how)

\* C18: when a gathering request sent by the user or by the initial-message
\* effect ends with an error, and the project was not reset, the phase, the
\* conversation history and the project information are those of the
\* render the request was sent from.
C18_StateUnchangedOnError ==
    [][\A s \in 1..Len(streams) :
          (/\ ErrorStep(s)
           /\ streams[s].handler \in {"send", "init"}
           /\ streams[s].req.phase = "gathering"
           /\ used.resets = 0)
          => /\ phase' = streams[s].snap.phase
             /\ conversationHistory' = streams[s].snap.conversationHistory
             /\ projectInformation' = streams[s].snap.projectInformation]_vars

\* this step ends stream s, while it is being read, by a failure of the
\* transport: the body ends early, or fetch or read rejects
TransportFailStep(s) ==
    /\ streams[s].st = "reading"
    /\ \E how \in {"cut", "throw"} :
          streams'[s] = Closed(streams[s].handler, how)

\* C20: a step in which the transport fails the tracked stream does what the
\* watchdog's callback does: it issues one continuation request for the
\* stream's phase whose partial text is the accumulated text, and it shows
\* no error message.
C20_SameHandling ==
    [][\A s \in 1..Len(streams) :
          (TransportFailStep(s) /\ Tracked = s /\ isStreamingRef)
          => /\ Fired
             /\ Issued.continuationMode
             /\ Issued.partialResponse = responseRef
             /\ Issued.phase = streams[s].req.phase
             /\ messages'[Len(messages')] # ErrorMsg]_vars

---------------------------------------------------------------------------
(* Properties of the route handler's error responses *)

\* the request being served is a recommendation whose catalog read failed
CatalogFailed ==
    /\ srv.pc = "closed"
    /\ srv.req.phase = "recommendation"
    /\ ~srv.catalogRead

\* C23: when reading the catalog documents fails, a recommendation request
\* yields exactly one response, the catalog error (with done: true when
\* streaming), no fragment record and no upstream generation call; a
\* gathering request never reads the catalog and never gets that error.
C23_CatalogUnavailable ==
    /\ CatalogFailed =>
          /\ Len(srv.out) = 1
          /\ srv.out[1].error /\ srv.out[1].errText = CatalogError
          /\ ~srv.out[1].hasChunk
          /\ srv.req.streaming => srv.out[1].done
          /\ srv.upstreamCalls = 0
    /\ srv.req.phase = "gathering" =>
          /\ srv.pc # "catalog" /\ ~srv.catalogRead
          /\ \A i \in 1..Len(srv.out) : srv.out[i].errText # CatalogError

\* a streamed recommendation request whose catalog read failed
C23_Witness ==
    /\ CatalogFailed /\ srv.req.streaming
    /\ srv.out = <<ErrorRecord(CatalogError, TRUE, 200)>>

---------------------------------------------------------------------------
(* The earlier route handler, src/unnamed/part_000: JSON bodies only, the
   conversation kept as one text, the upstream reached through
   fetchGeminiResponse *)

\* the prompt for the information gathering phase
IMPROVED_PROMPT0 == <<"p", "r", "o", "m", "p", "t">>

\* "Hello! I'd like to discuss my project."
DefaultInput0 == <<"H", "e", "l", "l", "o">>

\* "Error generating response. Please try again."
GenerationErrorText ==
    <<"E", "r", "r", "o", "r", " ", "g", "e", "n", "e", "r", "a", "t", "i",
      "n", "g", " ", "r", "e", "s", "p", "o", "n", "s", "e", ".", " ", "P",
      "l", "e", "a", "s", "e", " ", "t", "r", "y", " ", "a", "g", "a", "i",
      "n", ".">>

\* "FINAL SUMMARY"
SENTINEL0 ==
    <<"F", "I", "N", "A", "L", " ", "S", "U", "M", "M", "A", "R", "Y">>

\* a JSON body of the earlier route; an absent key is has* = FALSE. The
\* message of an error body is errText, a generated text is text
NoBody0 ==
    [hasError |-> FALSE, error |-> FALSE, errText |-> "",
     hasText |-> FALSE, text |-> <<>>,
     conversationContext |-> <<>>, isComplete |-> FALSE,
     projectInformation |-> <<>>, status |-> 200]

\* Response.json({error: true, text: msg}, {status})
ErrorBody0(msg, status) ==
    [NoBody0 EXCEPT !.hasError = TRUE, !.error = TRUE, !.errText = msg,
                    !.status = status]

\* what the upstream does with one call: a text, or a failure (a status
\* that is not OK, no candidates, a rejected fetch)
UpstreamOutcomes ==
    {[ok |-> TRUE, text |-> t] : t \in Texts}
        \cup {[ok |-> FALSE, text |-> <<>>]}

\* fetchGeminiResponse: the catch turns every failure into a text
fetchGeminiResponse(outcome) ==
    IF outcome.ok THEN [text |-> outcome.text]
    ELSE [text |-> GenerationErrorText]

\* the conversation text as the sequence of its labelled parts
Contexts0 ==
    LET u == CHOOSE x \in UserInputs : TRUE
    IN  { <<>>,
          <<Turn("System", IMPROVED_PROMPT0), Turn("User", u),
            Turn("AI", FragA)>> }

\* a request body as the earlier POST destructures it
Requests0 ==
    { [phase |-> ph, userInput |-> u, conversationContext |-> c,
       projectInformation |-> pinfo] :
        ph \in {"gathering", "recommendation", "other"},
        u \in UserInputs \cup {<<>>},
        c \in Contexts0,
        pinfo \in {<<>>, SENTINEL} }

\* handleInformationGathering(userInput, conversationContext), given the
\* text the upstream call returned
handleInformationGathering0(req, aiOutput) ==
    LET context ==
            IF req.conversationContext = <<>>
            THEN <<Turn("System", IMPROVED_PROMPT0),
                   Turn("User", IF req.userInput = <<>> THEN DefaultInput0
                                ELSE req.userInput)>>
            ELSE Append(req.conversationContext, Turn("User", req.userInput))
        isComplete == includes(aiOutput, SENTINEL0)
    IN  [NoBody0 EXCEPT
            !.hasText = TRUE, !.text = aiOutput,
            !.conversationContext = Append(context, Turn("AI", aiOutput)),
            !.isComplete = isComplete,
            !.projectInformation = IF isComplete THEN aiOutput ELSE <<>>]

\* handleToolRecommendation(projectInformation), given the text the
\* upstream call returned: {text, error: false}
handleToolRecommendation0(req, resultText) ==
    [NoBody0 EXCEPT !.hasError = TRUE, !.error = FALSE,
                    !.hasText = TRUE, !.text = resultText]

\* failure: what went wrong while the request was handled, "" if nothing
Srv0Idle ==
    [pc |-> "idle",
     req |-> [phase |-> "gathering", userInput |-> <<>>,
              conversationContext |-> <<>>, projectInformation |-> <<>>],
     failure |-> "", upstreamCalls |-> 0, out |-> <<>>]

\* export async function POST(request): destructure the body and dispatch
POST0 ==
    /\ UNCHANGED clientVars
    /\ srv.pc = "idle"
    /\ \E req \in Requests0 :
        srv' =
          IF ~ValidPhase(req)
          THEN [srv EXCEPT
                  !.pc = "closed", !.req = req, !.failure = "phase",
                  !.out = <<ErrorBody0("Invalid phase specified", 400)>>]
          ELSE [srv EXCEPT
                  !.pc = IF req.phase = "recommendation" THEN "catalog"
                         ELSE "generating",
                  !.req = req]

\* request.json() throws: POST's catch, status 500
POST0Unparsable ==
    /\ UNCHANGED clientVars
    /\ srv.pc = "idle"
    /\ srv' = [srv EXCEPT
                 !.pc = "closed", !.failure = "body",
                 !.out = <<ErrorBody0("An error occurred while processing your request.", 500)>>]

\* readFromFile succeeds
Srv0CatalogRead ==
    /\ UNCHANGED clientVars
    /\ srv.pc = "catalog"
    /\ srv' = [srv EXCEPT !.pc = "generating"]

\* readFromFile throws: the body handleToolRecommendation returns
Srv0CatalogFail ==
    /\ UNCHANGED clientVars
    /\ srv.pc = "catalog"
    /\ srv' = [srv EXCEPT
                 !.pc = "closed", !.failure = "catalog",
                 !.out = <<ErrorBody0("Error: Unable to access tool information. Please try again later.", 200)>>]

\* await fetchGeminiResponse(...), which never throws, the rest of the
\* phase handler, and Response.json(result)
Srv0Respond(outcome) ==
    /\ UNCHANGED clientVars
    /\ srv.pc = "generating"
    /\ LET response == fetchGeminiResponse(outcome)
       IN  srv' = [srv EXCEPT
                     !.pc = "closed",
                     !.upstreamCalls = @ + 1,
                     !.failure = IF outcome.ok THEN "" ELSE "upstream",
                     !.out =
                       IF srv.req.phase = "gathering"
                       THEN <<handleInformationGathering0(srv.req, response.text)>>
                       ELSE <<handleToolRecommendation0(srv.req, response.text)>>]

\* the response has been sent
Srv0Next ==
    /\ UNCHANGED clientVars
    /\ srv.pc = "closed"
    /\ srv' = Srv0Idle

ServerInit0 == srv = Srv0Idle /\ ClientOff

ServerNext0 ==
    \/ POST0
    \/ POST0Unparsable
    \/ Srv0CatalogRead
    \/ Srv0CatalogFail
    \/ \E outcome \in UpstreamOutcomes : Srv0Respond(outcome)
    \/ Srv0Next

ServerSpec0 == ServerInit0 /\ [][ServerNext0]_vars

\* C24: every failure in the handling of a request (invalid phase,
\* unparsable body, catalog read, upstream call) reaches the caller as a
\* body {error: true, text: <message>}; an invalid phase gives that body
\* with status 400 and no upstream call.
C24_UniformErrorShape ==
    (srv.pc = "closed" /\ srv.failure # "") =>
        /\ srv.out[1].hasError /\ srv.out[1].error
        /\ srv.out[1].errText # "" \/ srv.out[1].hasText
        /\ srv.failure = "phase" =>
              srv.out[1].status = 400 /\ srv.upstreamCalls = 0

---------------------------------------------------------------------------
(* Properties of the client's read loop *)

\* a record of stream s failed to parse earlier and was skipped: the
\* handler's text lacks a fragment the server sent
Skipped(s) ==
    streams[s].st = "reading" /\ streams[s].fullContent # streams[s].output

\* this step reads a record of stream s that fails to parse
SkipStep(s) ==
    /\ streams[s].st = "reading"
    /\ Len(streams') = Len(streams)
    /\ Len(streams'[s].output) > Len(streams[s].output)
    /\ streams'[s].fullContent = streams[s].fullContent

\* this step reads and parses a fragment record of stream s
ParsedStep(s) ==
    /\ Len(streams') = Len(streams)
    /\ Len(streams'[s].fullContent) > Len(streams[s].fullContent)

\* C25: a record that fails to parse is skipped and the read loop goes on:
\* the stream stays open and nothing shown changes; a fragment record
\* parsed after it is appended to the accumulated text, and the done record
\* can still be read and is processed as for any other stream.
C25_MalformedSkipped ==
    /\ [](\A s \in 1..Len(streams) :
            (Skipped(s) /\ Ready) => ENABLED Done(s))
    /\ [][\A s \in 1..Len(streams) :
            /\ SkipStep(s) =>
                  /\ streams'[s].st = "reading"
                  /\ messages' = messages
                  /\ isLoading' = isLoading
            /\ (Skipped(s) /\ ParsedStep(s)) =>
                  \E f \in Frags :
                      /\ streams'[s].output = streams[s].output \o f
                      /\ streams'[s].fullContent = streams[s].fullContent \o f
            /\ (Skipped(s) /\ DoneStep(s)) =>
                  /\ ~isLoading'
                  /\ (/\ streams[s].handler \in {"send", "contG", "init"}
                      /\ TerminalRecord(streams[s].req, streams[s].output)
                            .hasHistory) =>
                        conversationHistory' =
                            TerminalRecord(streams[s].req, streams[s].output)
                                .conversationHistory]_vars

\* the one stream of the run lost its first fragment record, received the
\* second, and ended with its done record
C25_Witness ==
    /\ Len(streams) = 1 /\ streams[1].terminal = "done"
    /\ used.faults = 1 /\ used.frags = 2
    /\ LastAssistant(messages) \in Frags

\* C30: when the done record of a stream is processed, the text the handler
\* has accumulated is the concatenation, in order, of the fragment records
\* the server enqueued on that stream, however the transport grouped the
\* bytes into reads.
C30_FramingIndependence ==
    [][\A s \in 1..Len(streams) :
          DoneStep(s) => streams[s].fullContent = streams[s].output]_vars

---------------------------------------------------------------------------
(* Properties of the client's interruption handling *)

\* C27: when the watchdog fires, every message of the list, the one holding
\* the partial text included, stays where it is with its content unchanged,
\* and the "continuing" system message is appended right after the last of
\* them.
C27_PartialKept ==
    [][Fired =>
          /\ Len(messages') > Len(messages)
          /\ SubSeq(messages', 1, Len(messages)) = messages
          /\ messages'[Len(messages) + 1] = TimeoutMsg]_vars

\* the watchdog has fired for a stream that had delivered a fragment: the
\* assistant message holding it is followed by the notice
C27_Witness ==
    \E i \in 1..(Len(messages) - 1) :
        /\ messages[i].role = "assistant" /\ messages[i].content # <<>>
        /\ messages[i + 1] = TimeoutMsg

\* stream s was interrupted and the continuation stream that replaced it is
\* being read
Superseded(s) ==
    /\ Open(streams[s])
    /\ \E t \in 1..Len(streams) :
          /\ t > s
          /\ streams[t].handler \in {"contG", "contR"}
          /\ streams[t].st = "reading"

\* C28: a fragment delivered by an interrupted stream whose continuation is
\* being read is neither appended to the watchdog's buffer nor written into
\* a displayed message.
C28_BufferOfNewestStream ==
    [][\A s \in 1..Len(streams) :
          (Superseded(s) /\ ParsedStep(s)) =>
              /\ responseRef' = responseRef
              /\ messages' = messages]_vars

\* C29: isLoading is true in every state in which a request of the
\* conversation is in flight.
C29_LoadingWhileInFlight == OpenStreams # {} => isLoading

---------------------------------------------------------------------------
(* StallSpec: the client against an upstream whose every stream stalls     *)
(* before its done record: a response arrives, fragments may, and then      *)
(* nothing.  Time passes, timers fire, effects run and the route answers    *)
(* every fetch with its stream, hence the weak fairness of those steps.     *)

StallNext ==
    \/ InitialMessageEffect
    \/ WatchdogFires
    \/ Tick
    \/ \E s \in 1..Len(streams) : ResponseArrives(s)
    \/ \E s \in 1..Len(streams), f \in Frags : Fragment(s, f)

StallSpec ==
    /\ Init
    /\ [][StallNext]_vars
    /\ WF_vars(InitialMessageEffect)
    /\ WF_vars(WatchdogFires)
    /\ WF_vars(Tick)
    /\ WF_vars(\E s \in 1..Len(streams) : ResponseArrives(s))

\* the continuation requests issued so far
Continuations ==
    {s \in 1..Len(streams) : streams[s].handler \in {"contG", "contR"}}

\* the client has given up or can no longer continue: an error is shown, or
\* the input is enabled again, or neither the watchdog nor a fetch is pending
\* while more requests could be issued
GaveUp ==
    \/ \E i \in 1..Len(messages) : messages[i] = ErrorMsg
    \/ ~isLoading
    \/ /\ Cardinality(OtherRequests) < MaxRequests
       /\ ~timeoutRef.armed
       /\ \A s \in 1..Len(streams) : streams[s].st # "fetching"

---------------------------------------------------------------------------
(* SpecB: the component's second version, ToolHireChatbot.jsx lines        *)
(* 1234-2051, talking to the second version of the route (part_002).  A    *)
(* handler is created in a render and closes over that render's state; the *)
(* 9500 ms timer of a fetch is cleared when the fetch resolves.            *)

mainVars == <<srv, messages, isLoading, phase, conversationHistory,
              projectInformation, initialMessageSent, timeoutRef,
              responseRef, isStreamingRef, currentRequestRef, streams,
              timers, effectDue, idleMs, used>>

\* the pending 1000 ms timers: handleContinueResponse() after an abort,
\* handleRecommendationPhase(pinfo) after the gathering has completed
ContinueTimerB(closure) ==
    [kind |-> "continue", projectInformation |-> <<>>, closure |-> closure]

RecommendationTimerB(pinfo, closure) ==
    [kind |-> "recommendation", projectInformation |-> pinfo,
     closure |-> closure]

WithoutTimerB(c, j) ==
    [c EXCEPT !.timers = SubSeq(@, 1, j - 1) \o SubSeq(@, j + 1, Len(@))]

\* the call k after its handler has returned
ClosedB(k, how) ==
    [CallB(k.handler, k.req, k.closure) EXCEPT
        !.st = "closed", !.terminal = how]

SendsB == {i \in 1..Len(compB.calls) : compB.calls[i].handler = "send"}

RecommendationsB == {i \in 1..Len(compB.calls) : compB.calls[i].handler = "rec"}

\* the terminal record of streamInformationGathering of part_002
GatheringDone2(req, output) ==
    LET base == IF req.conversationHistory = <<>>
                THEN <<Turn("user", IMPROVED_PROMPT),
                       Turn("model", SystemInitText)>>
                ELSE req.conversationHistory
        isComplete == includes(output, SENTINEL)
    IN  [NoRec EXCEPT
            !.done = TRUE,
            !.hasHistory = TRUE,
            !.conversationHistory =
                base \o <<Turn("user", req.userInput), Turn("model", output)>>,
            !.isComplete = isComplete,
            !.projectInformation = IF isComplete THEN output ELSE <<>>]

\* continuing from a partial: update the last message if it is a streaming
\* assistant message, push one otherwise
ShowPartialB(msgs, text) ==
    IF msgs # <<>> /\ msgs[Len(msgs)].role = "assistant"
       /\ msgs[Len(msgs)].streaming
    THEN [msgs EXCEPT ![Len(msgs)].content = text]
    ELSE Append(msgs, Msg("assistant", text, TRUE, ""))

\* finally { setIsLoading(false); if (!partialResponse) ... }
finallyB(c, cl) ==
    [c EXCEPT !.isLoading = FALSE,
              !.currentStreamingMessage =
                  IF cl.partialResponse.set THEN @ ELSE <<>>]

\* handleRecommendationPhase(projectInfo, isContinuation), up to the fetch
handleRecommendationPhaseB(c, cl, projectInfo, isContinuation) ==
    LET fresh == ~isContinuation /\ ~cl.partialResponse.set
        partial == IF cl.partialResponse.set
                      /\ cl.partialResponse.phase = "recommendation"
                   THEN cl.partialResponse ELSE NoPartial
    IN  [c EXCEPT
            !.isLoading = TRUE,
            !.currentStreamingMessage = IF fresh THEN <<>> ELSE @,
            !.messages = IF fresh THEN Append(@, PlaceholderMsg) ELSE @,
            !.calls = Append(@,
                CallB("rec",
                      RequestB("recommendation", <<>>, <<>>, projectInfo,
                               partial),
                      cl))]

\* handleContinueResponse().  For a gathering partial it calls
\* handleSendMessage(""), whose messageToSend is the closure's input: if
\* that is blank the call returns at once; if not, partialResponse &&
\* !userMessage holds and it calls handleContinueResponse again, without
\* end, until the stack overflows inside one of the two, which the async
\* caller turns into a rejected promise nobody awaits.  Either way no fetch
\* is issued and isLoading stays true.
handleContinueResponseB(c, cl) ==
    IF ~cl.partialResponse.set THEN c
    ELSE IF cl.partialResponse.phase = "gathering"
    THEN [c EXCEPT !.isLoading = TRUE]
    ELSE handleRecommendationPhaseB([c EXCEPT !.isLoading = TRUE], cl,
                                    cl.projectInformation, TRUE)

\* handleSendMessage(userMessage), up to the fetch
handleSendMessageB(c, cl, userMessage) ==
    LET messageToSend == IF userMessage # <<>> THEN userMessage ELSE cl.input
        fresh == ~cl.partialResponse.set
    IN  IF messageToSend = <<>> THEN c
        ELSE IF cl.partialResponse.set /\ userMessage = <<>>
        THEN handleContinueResponseB(c, cl)
        ELSE [c EXCEPT
                !.messages =
                    IF fresh
                    THEN @ \o <<Msg("user", messageToSend, FALSE, ""),
                                PlaceholderMsg>>
                    ELSE @,
                !.isLoading = TRUE,
                !.input = <<>>,
                !.currentStreamingMessage = IF fresh THEN <<>> ELSE @,
                !.calls = Append(@,
                    CallB("send",
                          RequestB(cl.phase, messageToSend,
                                   cl.conversationHistory,
                                   cl.projectInformation, cl.partialResponse),
                          cl))]

\* the input field is enabled
InputEnabledB ==
    ~(compB.isLoading \/ compB.phase = "recommendation"
      \/ compB.partialResponse.set)

\* the button is enabled
ButtonEnabledB ==
    ~((compB.isLoading \/ compB.input = <<>>
       \/ compB.phase = "recommendation") /\ ~compB.partialResponse.set)

\* the effect of the first render: the greeting request
BMountEffect ==
    /\ ~compB.initialMessageSent
    /\ compB' = [handleSendMessageB(compB, ClosureB(compB), HelloMsg.content)
                    EXCEPT !.initialMessageSent = TRUE]
    /\ UNCHANGED mainVars

\* onChange of the input field
BType(u) ==
    /\ compB.initialMessageSent /\ InputEnabledB
    /\ compB.input # u
    /\ compB' = [compB EXCEPT !.input = u]
    /\ UNCHANGED mainVars

\* Enter in the input field: handleSendMessage(input)
BEnter ==
    /\ compB.initialMessageSent /\ InputEnabledB
    /\ compB.input # <<>>
    /\ Cardinality(SendsB) < MaxRequests
    /\ compB' = handleSendMessageB(compB, ClosureB(compB), compB.input)
    /\ UNCHANGED mainVars

\* a click on the button: Continue if a partial response exists, else Send
BClick ==
    /\ compB.initialMessageSent /\ ButtonEnabledB
    /\ Cardinality(SendsB) < MaxRequests
    /\ Cardinality(RecommendationsB) < MaxRecommendations
    /\ compB' = IF compB.partialResponse.set
                THEN handleContinueResponseB(compB, ClosureB(compB))
                ELSE handleSendMessageB(compB, ClosureB(compB), compB.input)
    /\ UNCHANGED mainVars

\* the 9500 ms timer of call i fires while its fetch is pending: the
\* partial response is stored if the closure's currentStreamingMessage is
\* not empty, the fetch is aborted, and the catch and finally blocks run
BAbort(i) ==
    /\ i \in 1..Len(compB.calls) /\ compB.calls[i].st = "fetching"
    /\ LET k == compB.calls[i]
           cl == k.closure
           ph == IF k.handler = "rec" THEN "recommendation" ELSE cl.phase
       IN  compB' = finallyB(
              [compB EXCEPT
                 !.partialResponse =
                     IF cl.currentStreamingMessage # <<>>
                     THEN PartialResponseOf(cl.currentStreamingMessage, ph)
                     ELSE @,
                 !.messages = Append(@, TimeoutMsg),
                 !.timers = Append(@, ContinueTimerB(cl)),
                 !.calls[i] = ClosedB(k, "abort")],
              cl)
    /\ UNCHANGED mainVars

\* the fetch of call i resolves with response.ok: clearTimeout, and the
\* text of the closure's partial response is shown again
BResponseArrives(i) ==
    /\ i \in 1..Len(compB.calls) /\ compB.calls[i].st = "fetching"
    /\ LET k == compB.calls[i]
           cl == k.closure
           continues ==
               /\ cl.partialResponse.set
               /\ k.handler = "send" \/ cl.partialResponse.phase = "recommendation"
           full == IF continues THEN cl.partialResponse.text ELSE <<>>
       IN  compB' = [compB EXCEPT
              !.calls[i] = [k EXCEPT !.st = "reading", !.fullContent = full],
              !.currentStreamingMessage = IF continues THEN full ELSE @,
              !.messages = IF continues THEN ShowPartialB(@, full) ELSE @]
    /\ UNCHANGED mainVars

\* a fragment record {chunk, done: false} is read and processed
BFragment(i, f) ==
    /\ i \in 1..Len(compB.calls) /\ compB.calls[i].st = "reading"
    /\ compB.calls[i].nfrags < MaxFrags
    /\ compB.used.frags < MaxRunFrags
    /\ LET k == compB.calls[i]
           full == k.fullContent \o f
       IN  compB' = [compB EXCEPT
              !.calls[i] = [k EXCEPT !.fullContent = full,
                                     !.output = @ \o f, !.nfrags = @ + 1],
              !.currentStreamingMessage = full,
              !.messages = SetLastContent(@, full),
              !.used.frags = @ + 1]
    /\ UNCHANGED mainVars

\* the done record is read, the stream ends, and the handler runs to its end
BDone(i) ==
    /\ i \in 1..Len(compB.calls) /\ compB.calls[i].st = "reading"
    /\ LET k == compB.calls[i]
           cl == k.closure
           rec == IF k.req.phase = "gathering"
                  THEN GatheringDone2(k.req, k.output)
                  ELSE [NoRec EXCEPT !.done = TRUE]
           hands == k.handler = "send" /\ rec.isComplete
                    /\ cl.phase = "gathering"
       IN  compB' = finallyB(
              [compB EXCEPT
                 !.partialResponse = NoPartial,
                 !.messages =
                     ClearLastStreaming(@)
                     \o (IF hands THEN <<TransitionMsg>> ELSE <<>>)
                     \o (IF k.handler = "rec" THEN <<ThanksMsg>> ELSE <<>>),
                 !.conversationHistory =
                     IF k.handler = "send" /\ rec.hasHistory
                     THEN rec.conversationHistory ELSE @,
                 !.projectInformation =
                     IF hands THEN rec.projectInformation ELSE @,
                 !.phase = IF hands THEN "recommendation" ELSE @,
                 !.timers =
                     IF hands
                     THEN Append(@, RecommendationTimerB(rec.projectInformation, cl))
                     ELSE @,
                 !.calls[i] = ClosedB(k, "done")],
              cl)
    /\ UNCHANGED mainVars

\* call i ends without a processed done record: an error record ("error"),
\* a stream closed early ("cut"), or a rejected fetch or read or a status
\* that is not OK ("throw")
BStreamFails(i, how) ==
    /\ i \in 1..Len(compB.calls)
    /\ compB.calls[i].st = "reading"
       \/ (how = "throw" /\ compB.calls[i].st = "fetching")
    /\ compB.used.faults < MaxFaults
    /\ LET k == compB.calls[i]
       IN  compB' = finallyB(
              [compB EXCEPT
                 !.messages = IF how = "cut" THEN @ ELSE ReplaceByError(@),
                 !.calls[i] = ClosedB(k, how),
                 !.used.faults = @ + 1],
              k.closure)
    /\ UNCHANGED mainVars

\* the timer set after an abort: handleContinueResponse() of the closure
BContinueTimer(j) ==
    /\ j \in 1..Len(compB.timers) /\ compB.timers[j].kind = "continue"
    /\ Cardinality(RecommendationsB) < MaxRecommendations
    /\ compB' = handleContinueResponseB(WithoutTimerB(compB, j),
                                        compB.timers[j].closure)
    /\ UNCHANGED mainVars

\* the timer set when the gathering completed
BRecommendationTimer(j) ==
    /\ j \in 1..Len(compB.timers) /\ compB.timers[j].kind = "recommendation"
    /\ Cardinality(RecommendationsB) < MaxRecommendations
    /\ compB' = handleRecommendationPhaseB(WithoutTimerB(compB, j),
                    compB.timers[j].closure,
                    compB.timers[j].projectInformation, FALSE)
    /\ UNCHANGED mainVars

InitB == srv = SrvIdle /\ ClientOff

NextB ==
    \/ BMountEffect
    \/ \E u \in UserInputs : BType(u)
    \/ BEnter
    \/ BClick
    \/ \E i \in 1..Len(compB.calls) : BAbort(i)
    \/ \E i \in 1..Len(compB.calls) : BResponseArrives(i)
    \/ \E i \in 1..Len(compB.calls), f \in Frags : BFragment(i, f)
    \/ \E i \in 1..Len(compB.calls) : BDone(i)
    \/ \E i \in 1..Len(compB.calls), how \in {"error", "cut", "throw"} :
          BStreamFails(i, how)
    \/ \E j \in 1..Len(compB.timers) : BContinueTimer(j)
    \/ \E j \in 1..Len(compB.timers) : BRecommendationTimer(j)

SpecB == InitB /\ [][NextB]_vars

\* no partial response is ever stored
NoPartialEverB == ~compB.partialResponse.set

---------------------------------------------------------------------------
(* Properties of the watchdog's firing *)

\* the streams the watchdog has fired for so far
FiredFor == used.fired

\* C31: the watchdog fires at most once for a tracked stream: it never fires
\* for a stream it has fired for, and as long as such a stream is the
\* tracked one, no fragment and no failure of it leaves the watchdog pending
\* or tracking.
C31_OneContinuationPerStream ==
    /\ [](Tracked \in FiredFor => ~timeoutRef.armed /\ ~isStreamingRef)
    /\ [][Fired => /\ Tracked \notin FiredFor
                   /\ FiredFor' = FiredFor \cup {Tracked}]_vars

\* the watchdog has fired for the first stream before any fragment of it
\* (the continuation's partial text is empty), and a fragment of that stream
\* has been processed since, the continuation's response not yet there
C31_Witness ==
    /\ Len(streams) >= 2
    /\ 1 \in FiredFor /\ Tracked = 1
    /\ streams[2].st = "fetching" /\ streams[2].req.partialResponse = <<>>
    /\ Open(streams[1]) /\ streams[1].fullContent # <<>>

---------------------------------------------------------------------------
(* Properties of Reset Project *)

\* this step is handleResetProject
ResetStep == used'.resets = used.resets + 1

\* the state handleResetProject has just left: its 100 ms timer is pending
\* and the initial-message effect has not yet run again
JustReset ==
    /\ effectDue
    /\ \E i \in 1..Len(timers) : timers[i].kind = "resetInit"

\* C32: handleResetProject leaves phase gathering, conversationHistory and
\* projectInformation empty, the message list holding the welcome message
\* alone, the partial-text buffer empty, the watchdog disarmed and no stream
\* tracked.
C32_ResetRestores ==
    [][ResetStep =>
          /\ phase' = "gathering"
          /\ conversationHistory' = <<>>
          /\ projectInformation' = <<>>
          /\ messages' = <<WelcomeMsg>>
          /\ responseRef' = <<>>
          /\ ~timeoutRef'.armed
          /\ ~isStreamingRef']_vars

\* the project has been reset in the recommendation phase while the
\* recommendation stream was being read and had delivered a fragment
C32_Witness ==
    /\ JustReset
    /\ phase = "gathering" /\ messages = <<WelcomeMsg>> /\ responseRef = <<>>
    /\ \E s \in 1..Len(streams) :
          /\ streams[s].handler = "rec" /\ streams[s].st = "reading"
          /\ streams[s].fullContent # <<>>

\* the streams that were issued before the latest Reset Project
BeforeReset == 1..used.before

\* this step is taken by the handler reading stream s
StepOf(s) == streams'[s] # streams[s]

\* C33: a step of a handler whose request was issued before the latest Reset
\* Project changes neither phase, conversationHistory, projectInformation
\* nor the message list, and sets no timer for a recommendation request.
C33_ResetIsolates ==
    [][\A s \in BeforeReset :
          (StepOf(s) /\ Len(streams') = Len(streams)) =>
              /\ phase' = phase
              /\ conversationHistory' = conversationHistory
              /\ projectInformation' = projectInformation
              /\ messages' = messages
              /\ timers' = timers]_vars

---------------------------------------------------------------------------
(* Properties of the initial-message effect *)

\* the greeting requests issued so far
Greetings == {s \in 1..Len(streams) : streams[s].handler = "init"}

\* C34: once the initial-message effect has run, exactly one greeting
\* request has been issued for the mount and one for each Reset Project.
C34_GreetingOnce == Ready => Cardinality(Greetings) = used.resets + 1

---------------------------------------------------------------------------
(* Properties of the client's phase *)

\* C35: the phase is recommendation exactly when projectInformation is not
\* empty.
C35_PhaseAgreesWithInformation ==
    (phase = "recommendation") <=> (projectInformation # <<>>)

\* gathering has completed and the recommendation request has been issued
C35_Witness ==
    /\ phase = "recommendation" /\ projectInformation # <<>>
    /\ \E s \in 1..Len(streams) : streams[s].handler = "rec"

---------------------------------------------------------------------------
(* Properties of the message list *)

\* the entries of the message list flagged streaming
StreamingMessages == {i \in 1..Len(messages) : messages[i].streaming}

\* C36: when no request is in flight and the watchdog is disarmed, no entry
\* of the message list is flagged streaming.
C36_NoStreamingFlagLeft ==
    (OpenStreams = {} /\ ~timeoutRef.armed /\ Ready) => StreamingMessages = {}

---------------------------------------------------------------------------
(* Properties of the route handler serving a continuation without partial  *)
(* text                                                                     *)

\* the request being served is a continuation whose partial text is empty
EmptyContinuation ==
    srv.req.continuationMode /\ srv.req.partialResponse = <<>>

\* the same request, not marked as a continuation
FreshOf(req) == [req EXCEPT !.continuationMode = FALSE]

\* C37: a continuation request with an empty partial text is served as the
\* fresh request for the same input is: the gathering handler starts the
\* chat with the same history and returns the history with the user turn and
\* the model turn appended, the recommendation handler prompts with the
\* catalog template, the text it returns is the concatenation of the
\* fragments, and the terminal record is that of the fresh request but for
\* the flag `continuation`, which echoes the request's continuationMode.
C37_EmptyPartialIsFresh ==
    (SrvDoneOk /\ EmptyContinuation) =>
        LET req == srv.req
            sent == IF req.streaming THEN ChunksOf(srv.out) ELSE srv.output
        IN  /\ sent = srv.output
            /\ req.phase = "gathering" =>
                  /\ ChatHistory(req) = ChatHistory(FreshOf(req))
                  /\ SrvLast.conversationHistory =
                        req.conversationHistory
                        \o <<Turn("user", req.userInput), Turn("model", sent)>>
            /\ req.phase = "recommendation" =>
                  /\ RecommendationPrompt(req).kind = "template"
                  /\ RecommendationPrompt(req) = RecommendationPrompt(FreshOf(req))
                  /\ SrvLast.text = sent
            /\ [SrvLast EXCEPT !.continuation = FALSE]
                  = TerminalRecord(FreshOf(req), srv.output)

\* a streamed gathering continuation without partial text, whose history
\* ends with a model turn, answered with two fragments
C37_Witness ==
    /\ SrvDoneOk /\ EmptyContinuation
    /\ srv.req.phase = "gathering" /\ srv.req.streaming
    /\ Len(srv.req.conversationHistory) = 2
    /\ srv.nfrags = 2
    /\ Len(SrvLast.conversationHistory) = 4

===========================================================================
